---------------------------- MODULE Spec2Model ----------------------------
(***************************************************************************)
(* StrongChessEngine (src/strong_engine.py): iterative-deepening negamax   *)
(* with transposition table, check extension, reverse futility, null move, *)
(* futility, late-move reduction, killers, history and quiescence, driven  *)
(* by get_best_move under a wall-clock deadline.                           *)
(*                                                                         *)
(* The engine's recursion is an explicit stack of frames (callStack); the  *)
(* board is the python-chess Board the engine pushes and pops moves on.    *)
(* The board library is not part of the repository: positions, their legal *)
(* moves and the check flags come from the rules of chess played on a      *)
(* corner of the board; everything the engine computes from a position     *)
(* (evaluation, ordering, pruning, table updates) is computed as the       *)
(* source computes it.                                                     *)
(***************************************************************************)
EXTENDS Integers, Sequences, FiniteSets, TLC

\* ------------------------------------------------------------------------
\* Bounds of the model
\* ------------------------------------------------------------------------
\* number of get_best_move calls made on one engine
MaxCalls == 2
\* difficulty levels 1..MaxDifficulty are requested
MaxDifficulty == 2
\* the table's cap in SpecSmallTable
SmallTable == 4

\* ------------------------------------------------------------------------
\* Program constants
\* ------------------------------------------------------------------------
\* math.inf; every score the engine computes is far below it
Inf == 1000000
\* evaluate_position's checkmate score, "-100000"
MATE == 100000
\* "if abs(best_value) > 90000"
MATE_BOUND == 90000
\* "self.nodes_searched % 1000 == 0"
NODE_CHECK_INTERVAL == 1000
tt_max_size == 1000000
null_move_reduction == 2
null_move_material_threshold == 1500
endgame_material_threshold == 2000
aspiration_window == 50
aspiration_max_widening == 5
futility_margin_base == 300
reverse_futility_margin_base == 300
\* evaluate_position: "(4000 - total_material) / 2000"
ENDGAME_NUMERATOR == 4000
ENDGAME_DENOMINATOR == 2000
\* ordered_moves[:5] in get_best_move's fallback
FALLBACK_MOVES == 5
\* delta_pruning: "stand_pat + victim_value + 100 < alpha"
DELTA_MARGIN == 100

\* chess.PAWN .. chess.KING
PAWN == 1
KNIGHT == 2
BISHOP == 3
ROOK == 4
QUEEN == 5
KING == 6
WHITE == "w"
BLACK == "b"
\* Python's None where a string is expected
None == "None"

Other(c) == IF c = WHITE THEN BLACK ELSE WHITE

\* self.piece_values / self.see_values (the two tables are equal)
piece_values == << 100, 320, 330, 500, 900, 20000 >>
see_values == << 100, 320, 330, 500, 900, 20000 >>

time_limits == << 5, 10, 15, 20 >>
depth_limits == << 3, 4, 5, 6 >>

\* update_depth: the .get defaults for a difficulty outside 1..4
max_time_of(difficulty) ==
    IF difficulty \in 1..4 THEN time_limits[difficulty] ELSE 10
target_depth_of(difficulty) ==
    IF difficulty \in 1..4 THEN depth_limits[difficulty] ELSE 4

Max(a, b) == IF a >= b THEN a ELSE b
Min(a, b) == IF a <= b THEN a ELSE b
Abs(x) == IF x < 0 THEN -x ELSE x

\* Python float arithmetic on +-inf: inf + c = inf, -inf + c = -inf
AddInf(x, c) == IF x = Inf \/ x = -Inf THEN x ELSE x + c

\* src/strong_engine.py:46-55
pawn_table ==
    << 0, 0, 0, 0, 0, 0, 0, 0,
       50, 50, 50, 50, 50, 50, 50, 50,
       10, 10, 20, 25, 25, 20, 10, 10,
       5, 5, 10, 20, 20, 10, 5, 5,
       0, 0, 0, 15, 15, 0, 0, 0,
       5, -5, -10, 0, 0, -10, -5, 5,
       5, 10, 10, -20, -20, 10, 10, 5,
       0, 0, 0, 0, 0, 0, 0, 0 >>

\* src/strong_engine.py:57-66
knight_table ==
    << -50, -40, -30, -30, -30, -30, -40, -50,
       -40, -20, 0, 5, 5, 0, -20, -40,
       -30, 0, 10, 15, 15, 10, 0, -30,
       -30, 5, 15, 20, 20, 15, 5, -30,
       -30, 0, 15, 20, 20, 15, 0, -30,
       -30, 5, 10, 15, 15, 10, 5, -30,
       -40, -20, 0, 5, 5, 0, -20, -40,
       -50, -40, -30, -30, -30, -30, -40, -50 >>

\* src/strong_engine.py:68-77
bishop_table ==
    << -20, -10, -10, -10, -10, -10, -10, -20,
       -10, 5, 0, 0, 0, 0, 5, -10,
       -10, 10, 10, 10, 10, 10, 10, -10,
       -10, 0, 10, 10, 10, 10, 0, -10,
       -10, 5, 5, 10, 10, 5, 5, -10,
       -10, 0, 5, 10, 10, 5, 0, -10,
       -10, 0, 0, 0, 0, 0, 0, -10,
       -20, -10, -10, -10, -10, -10, -10, -20 >>

\* src/strong_engine.py:79-88
rook_table ==
    << 0, 0, 0, 5, 5, 0, 0, 0,
       -5, 0, 0, 0, 0, 0, 0, -5,
       -5, 0, 0, 0, 0, 0, 0, -5,
       -5, 0, 0, 0, 0, 0, 0, -5,
       -5, 0, 0, 0, 0, 0, 0, -5,
       -5, 0, 0, 0, 0, 0, 0, -5,
       5, 10, 10, 10, 10, 10, 10, 5,
       0, 0, 0, 0, 0, 0, 0, 0 >>

\* src/strong_engine.py:90-99
queen_table ==
    << -20, -10, -10, -5, -5, -10, -10, -20,
       -10, 0, 5, 0, 0, 0, 0, -10,
       -10, 5, 5, 5, 5, 5, 0, -10,
       0, 0, 5, 5, 5, 5, 0, -5,
       -5, 0, 5, 5, 5, 5, 0, -5,
       -10, 0, 5, 5, 5, 5, 0, -10,
       -10, 0, 0, 0, 0, 0, 0, -10,
       -20, -10, -10, -5, -5, -10, -10, -20 >>

\* src/strong_engine.py:101-110
king_middle_table ==
    << -30, -40, -40, -50, -50, -40, -40, -30,
       -30, -40, -40, -50, -50, -40, -40, -30,
       -30, -40, -40, -50, -50, -40, -40, -30,
       -30, -40, -40, -50, -50, -40, -40, -30,
       -20, -30, -30, -40, -40, -30, -30, -20,
       -10, -20, -20, -20, -20, -20, -20, -10,
       20, 20, 0, 0, 0, 0, 20, 20,
       20, 30, 10, 0, 0, 10, 30, 20 >>

\* src/strong_engine.py:112-121
king_end_table ==
    << -50, -40, -30, -20, -20, -30, -40, -50,
       -30, -20, -10, 0, 0, -10, -20, -30,
       -30, -10, 20, 30, 30, 20, -10, -30,
       -30, -10, 30, 40, 40, 30, -10, -30,
       -30, -10, 30, 40, 40, 30, -10, -30,
       -30, -10, 20, 30, 30, 20, -10, -30,
       -30, -30, 0, 0, 0, 0, -30, -30,
       -50, -30, -30, -30, -30, -30, -30, -50 >>

\* ------------------------------------------------------------------------
\* The board (python-chess, used through "import chess"): squares 0..63,
\* a1 = 0, h8 = 63.  The fixture plays the rules of chess for kings, queens,
\* rooks, bishops, knights and pawns (promotion included; no castling, no
\* en passant) on the corner a6..c8 of the board.
\* ------------------------------------------------------------------------
RegionFiles == 0..2
RegionRanks == 5..7

square(f, r) == r * 8 + f
square_file(s) == s % 8
square_rank(s) == s \div 8
RegionSquares == { square(f, r) : f \in RegionFiles, r \in RegionRanks }

\* chess.Move: promotion 0 stands for None; NoMove stands for a move that is
\* None; chess.Move.null() is Move(0, 0) and is falsy
Move(f, t, p) == [from_square |-> f, to_square |-> t, promotion |-> p]
NoMove == Move(-1, -1, 0)
NullMove == Move(0, 0, 0)
IsMove(m) == m # NoMove /\ m # NullMove

Piece(t, c) == [piece_type |-> t, color |-> c]

\* board.piece_at(square) is not None
occupied(pieces, s) == s \in DOMAIN pieces

Sgn(x) == IF x > 0 THEN 1 ELSE IF x < 0 THEN -1 ELSE 0

\* the squares strictly between s and t, df files and dr ranks apart on a
\* rank, file or diagonal, are empty
PathClearBy(pieces, s, df, dr) ==
    \A k \in 1..(Max(Abs(df), Abs(dr)) - 1) :
        ~occupied(pieces, square(square_file(s) + k * Sgn(df), square_rank(s) + k * Sgn(dr)))

PathClear(pieces, s, t) ==
    PathClearBy(pieces, s, square_file(t) - square_file(s), square_rank(t) - square_rank(s))

\* a piece of type t and colour c reaches a square df files and dr ranks away
\* on an empty board
Reaches(t, c, df, dr) ==
    CASE t = KING -> Max(Abs(df), Abs(dr)) = 1
      [] t = KNIGHT -> {Abs(df), Abs(dr)} = {1, 2}
      [] t = PAWN -> dr = (IF c = WHITE THEN 1 ELSE -1) /\ Abs(df) = 1
      [] t = ROOK -> (df = 0) # (dr = 0)
      [] t = BISHOP -> Abs(df) = Abs(dr) /\ df # 0
      [] t = QUEEN -> ((df = 0) # (dr = 0)) \/ (Abs(df) = Abs(dr) /\ df # 0)

\* the piece on s attacks square t
Attacks(pieces, s, t) ==
    /\ Reaches(pieces[s].piece_type, pieces[s].color,
               square_file(t) - square_file(s), square_rank(t) - square_rank(s))
    /\ pieces[s].piece_type \in {ROOK, BISHOP, QUEEN} => PathClear(pieces, s, t)

is_attacked_by(pieces, color, t) ==
    \E s \in DOMAIN pieces : pieces[s].color = color /\ Attacks(pieces, s, t)

\* board.king(color): the model's positions always hold both kings
king(pieces, color) ==
    CHOOSE s \in DOMAIN pieces : pieces[s] = Piece(KING, color)

\* a pawn of colour c on s may move df files and dr ranks to t
PawnMove(pieces, s, t, df, dr, dir, home) ==
    \/ df = 0 /\ dr = dir /\ ~occupied(pieces, t)
    \/ /\ df = 0 /\ dr = 2 * dir /\ square_rank(s) = home
       /\ ~occupied(pieces, t)
       /\ ~occupied(pieces, square(square_file(s), square_rank(s) + dir))
    \/ Abs(df) = 1 /\ dr = dir /\ occupied(pieces, t)

\* the piece on s may move to t, its own king's safety aside
PseudoLegal(pieces, s, t) ==
    /\ t # s
    /\ ~(occupied(pieces, t) /\ pieces[t].color = pieces[s].color)
    /\ IF pieces[s].piece_type = PAWN
       THEN PawnMove(pieces, s, t,
                     square_file(t) - square_file(s), square_rank(t) - square_rank(s),
                     IF pieces[s].color = WHITE THEN 1 ELSE -1,
                     IF pieces[s].color = WHITE THEN 1 ELSE 6)
       ELSE Attacks(pieces, s, t)

\* the pieces after the piece q has landed on the move's to-square
Placed(pieces, m, q) ==
    [s \in (DOMAIN pieces \ {m.from_square}) \cup {m.to_square} |->
        IF s = m.to_square THEN q ELSE pieces[s]]

\* the pieces after the move (a null move leaves them alone)
AfterMove(pieces, m) ==
    IF m = NullMove THEN pieces
    ELSE Placed(pieces, m,
                IF m.promotion # 0 THEN Piece(m.promotion, pieces[m.from_square].color)
                ELSE pieces[m.from_square])

PromotionRank(color) == IF color = WHITE THEN 7 ELSE 0

\* the promotion pieces a move of the piece on s to t can name
Promotions(pieces, s, t) ==
    IF pieces[s].piece_type = PAWN /\ square_rank(t) = PromotionRank(pieces[s].color)
    THEN {QUEEN, ROOK, BISHOP, KNIGHT} ELSE {0}

\* the side to move's king is not attacked in the position
KingSafe(pieces, turn) == ~is_attacked_by(pieces, Other(turn), king(pieces, turn))

LegalMoveSet(pieces, turn) ==
    { m \in UNION { { Move(s, t, p) : p \in Promotions(pieces, s, t) } :
                    s \in { x \in DOMAIN pieces : pieces[x].color = turn },
                    t \in RegionSquares } :
        /\ PseudoLegal(pieces, m.from_square, m.to_square)
        /\ KingSafe(AfterMove(pieces, m), turn) }

\* generation order of board.legal_moves: by from-square, to-square, then
\* queen, rook, bishop, knight
MoveRank(m) ==
    m.from_square * 640 + m.to_square * 10 + (IF m.promotion = 0 THEN 0 ELSE 6 - m.promotion)

\* the move of S that is generated first
FirstMove(S) == CHOOSE x \in S : \A y \in S : MoveRank(x) <= MoveRank(y)

RECURSIVE SortedMoves(_)
SortedMoves(S) ==
    IF S = {} THEN << >>
    ELSE << FirstMove(S) >> \o SortedMoves(S \ {FirstMove(S)})

\* list(board.legal_moves)
legal_moves(b) == SortedMoves(LegalMoveSet(b.pieces, b.turn))

is_check(b) == ~KingSafe(b.pieces, b.turn)
is_checkmate(b) == LegalMoveSet(b.pieces, b.turn) = {} /\ is_check(b)
is_stalemate(b) == LegalMoveSet(b.pieces, b.turn) = {} /\ ~is_check(b)

\* board.is_capture(move): the model has no en passant
is_capture(b, m) == occupied(b.pieces, m.to_square) /\ b.pieces[m.to_square].color # b.turn
\* board.is_castling(move): the model's positions hold no castling rights
is_castling(b, m) == FALSE

TypesOf(pieces, color) ==
    { pieces[s].piece_type : s \in { x \in DOMAIN pieces : pieces[x].color = color } }
CountOf(pieces, color) == Cardinality({ s \in DOMAIN pieces : pieces[s].color = color })

\* the bishops of the position stand on squares of one colour
SameColoredBishops(bishops) ==
    \/ \A s \in bishops : (square_file(s) + square_rank(s)) % 2 = 0
    \/ \A s \in bishops : (square_file(s) + square_rank(s)) % 2 = 1

\* chess.Board.has_insufficient_material(color), own and opp the piece types
\* of the colour and of its opponent
InsufficientFor(pieces, color, own, opp) ==
    IF own \cap {PAWN, ROOK, QUEEN} # {} THEN FALSE
    ELSE IF KNIGHT \in own
         THEN CountOf(pieces, color) <= 2 /\ opp \subseteq {KING, QUEEN}
    ELSE IF BISHOP \in own
         THEN /\ SameColoredBishops({ s \in DOMAIN pieces : pieces[s].piece_type = BISHOP })
              /\ PAWN \notin (own \cup opp)
              /\ KNIGHT \notin (own \cup opp)
    ELSE TRUE

has_insufficient_material(pieces, color) ==
    InsufficientFor(pieces, color, TypesOf(pieces, color), TypesOf(pieces, Other(color)))

is_insufficient_material(b) ==
    has_insufficient_material(b.pieces, WHITE) /\ has_insufficient_material(b.pieces, BLACK)

\* board.transposition_key(): placement and side to move
transposition_key(b) == [pieces |-> b.pieces, turn |-> b.turn]

\* chess.Board(fen): an empty move stack
Board(fen) ==
    [pieces |-> fen.pieces, turn |-> fen.turn, fullmove_number |-> fen.fullmove_number,
     move_stack |-> << >>]

\* board.push(move): the move stack keeps the move and the state it left
push(b, m) ==
    [pieces |-> AfterMove(b.pieces, m),
     turn |-> Other(b.turn),
     fullmove_number |-> IF b.turn = BLACK THEN b.fullmove_number + 1 ELSE b.fullmove_number,
     move_stack |-> Append(b.move_stack,
                           [move |-> m, pieces |-> b.pieces, turn |-> b.turn,
                            fullmove_number |-> b.fullmove_number])]

\* the board an entry of the move stack records, under the rest of the stack
Restored(top, rest) ==
    [pieces |-> top.pieces, turn |-> top.turn, fullmove_number |-> top.fullmove_number,
     move_stack |-> rest]

\* a pop that leaves the board as it is: what the searches would see if a
\* pushed move were never taken back
pop_forgotten(b) == b

\* board.pop()
pop(b) ==
    Restored(b.move_stack[Len(b.move_stack)], SubSeq(b.move_stack, 1, Len(b.move_stack) - 1))

\* board.is_irreversible(move), for the entry of the move stack that holds it
Irreversible(e) ==
    /\ e.move # NullMove
    /\ \/ e.pieces[e.move.from_square].piece_type = PAWN
       \/ occupied(e.pieces, e.move.to_square)

\* the transposition keys counted by can_claim_threefold_repetition: those
\* of the positions back to the last irreversible move
RECURSIVE KeysBack(_, _)
KeysBack(stack, i) ==
    IF i = 0 THEN << >>
    ELSE IF Irreversible(stack[i]) THEN << >>
    ELSE << [pieces |-> stack[i].pieces, turn |-> stack[i].turn] >> \o KeysBack(stack, i - 1)

Occurrences(keys, k) == Cardinality({ i \in 1..Len(keys) : keys[i] = k })

\* the claim on the keys back to the last irreversible move: the position
\* has occurred three times, or a legal move reaches one that has occurred
\* twice
ThreefoldOn(b, keys) ==
    \/ Occurrences(keys, transposition_key(b)) >= 3
    \/ /\ Len(keys) >= 3
       /\ \E m \in LegalMoveSet(b.pieces, b.turn) :
             Occurrences(keys, [pieces |-> AfterMove(b.pieces, m), turn |-> Other(b.turn)]) >= 2

can_claim_threefold_repetition(b) ==
    ThreefoldOn(b, << transposition_key(b) >> \o KeysBack(b.move_stack, Len(b.move_stack)))

\* a game-over test that knows checkmate and insufficient material but not
\* stalemate
is_game_over_but_stalemate(b) == is_checkmate(b) \/ is_insufficient_material(b)

\* board.is_game_over(): checkmate, stalemate or insufficient material; the
\* model's positions start with halfmove clock 0 and no history, so neither
\* the 75-move rule nor fivefold repetition apply
is_game_over(b) ==
    LegalMoveSet(b.pieces, b.turn) = {} \/ is_insufficient_material(b)

\* ------------------------------------------------------------------------
\* Evaluation
\* ------------------------------------------------------------------------
RECURSIVE SumOver(_, _)
\* the sum of f[x] over the x of S
SumOver(f, S) ==
    IF S = {} THEN 0
    ELSE f[CHOOSE y \in S : TRUE] + SumOver(f, S \ {CHOOSE y \in S : TRUE})

\* Python's ^ on non-negative integers
RECURSIVE BitXor(_, _)
BitXor(a, b) ==
    IF a = 0 THEN b
    ELSE IF b = 0 THEN a
    ELSE ((a + b) % 2) + 2 * BitXor(a \div 2, b \div 2)

PawnSquares(pieces, color) ==
    { s \in DOMAIN pieces : pieces[s] = Piece(PAWN, color) }

\* no enemy pawn stands on the ranks ahead on the pawn's file or a file next
\* to it
NoPawnAhead(enemy_pawns, file, ahead) ==
    \A f \in {file - 1, file, file + 1} \cap 0..7 :
        \A r \in ahead : square(f, r) \notin enemy_pawns

is_passed_pawn(pieces, sq, color) ==
    NoPawnAhead(PawnSquares(pieces, Other(color)), square_file(sq),
                IF color = WHITE THEN (square_rank(sq) + 1)..7 ELSE 0..(square_rank(sq) - 1))

\* "pawn_key ^= (square + 1) * (1 if piece.color == chess.WHITE else 2)" over
\* the pawns of the piece map; XOR does not depend on the order
\* the term a pawn on sq adds to the key
PawnKeyTerm(pieces, sq) == (sq + 1) * (IF pieces[sq].color = WHITE THEN 1 ELSE 2)

\* one pawn of S, the next the fold takes
PickSquare(S) == CHOOSE s \in S : TRUE

RECURSIVE PawnKeyOver(_, _)
PawnKeyOver(pieces, S) ==
    IF S = {} THEN 0
    ELSE BitXor(PawnKeyOver(pieces, S \ {PickSquare(S)}), PawnKeyTerm(pieces, PickSquare(S)))

pawn_key(pieces) ==
    PawnKeyOver(pieces, PawnSquares(pieces, WHITE) \cup PawnSquares(pieces, BLACK))

\* files[f]: the number of the pawns on file f
pawn_counts(pawns) ==
    [f \in 0..7 |-> Cardinality({ s \in pawns : square_file(s) = f })]

doubled(files) == SumOver([f \in 0..7 |-> Max(0, files[f] - 1)], 0..7)

isolated(files) ==
    Cardinality({ f \in 0..7 :
        /\ files[f] > 0
        /\ ~(f > 0 /\ files[f - 1] > 0)
        /\ ~(f < 7 /\ files[f + 1] > 0) })

\* passed, doubled and isolated pawns of one colour, as the colour's penalty
\* and bonus terms
PawnTerms(pieces, color, pawns, files) ==
    50 * Cardinality({ s \in pawns : is_passed_pawn(pieces, s, color) })
    - doubled(files) * 20 - isolated(files) * 15

PawnSideScore(pieces, color, pawns) == PawnTerms(pieces, color, pawns, pawn_counts(pawns))

\* the score evaluate_pawn_structure computes on a cache miss
pawn_structure_score(pieces) ==
    PawnSideScore(pieces, WHITE, PawnSquares(pieces, WHITE))
    - PawnSideScore(pieces, BLACK, PawnSquares(pieces, BLACK))

\* "self.pawn_tt[pawn_key] = score"
PawnStore(ptt, k, score) ==
    [score |-> score,
     pawn_tt |-> [x \in DOMAIN ptt \cup {k} |-> IF x = k THEN score ELSE ptt[x]]]

PawnLookup(pieces, ptt, k) ==
    IF k \in DOMAIN ptt
    THEN [score |-> ptt[k], pawn_tt |-> ptt]
    ELSE PawnStore(ptt, k, pawn_structure_score(pieces))

\* evaluate_pawn_structure(board): the score returned and the pawn hash table
\* it leaves
evaluate_pawn_structure(pieces, ptt) == PawnLookup(pieces, ptt, pawn_key(pieces))

\* "idx = square if piece.color == chess.WHITE else (7 - square//8)*8 + (square%8)"
TableIndex(s, color) ==
    IF color = WHITE THEN s ELSE (7 - s \div 8) * 8 + (s % 8)

\* the piece-square table of a piece type, None (no table) for the king
PieceTable(t) ==
    CASE t = PAWN -> pawn_table
      [] t = KNIGHT -> knight_table
      [] t = BISHOP -> bishop_table
      [] t = ROOK -> rook_table
      [] t = QUEEN -> queen_table
      [] t = KING -> << >>

\* "pos_value = table[idx]", 0 for a piece type without a table
PosValue(table, idx) == IF table # << >> THEN table[idx + 1] ELSE 0

\* material + pos_value of the piece on s
PieceScore(pieces, s) ==
    piece_values[pieces[s].piece_type]
    + PosValue(PieceTable(pieces[s].piece_type), TableIndex(s, pieces[s].color))

Material(pieces, S) == SumOver([s \in S |-> piece_values[pieces[s].piece_type]], S)

ColorSquares(pieces, color) == { s \in DOMAIN pieces : pieces[s].color = color }

\* "sum(self.piece_values[p.piece_type] for p in board.piece_map().values())"
total_material(pieces) == Material(pieces, DOMAIN pieces)

\* mid_val * (1 - endgame_factor) + end_val * endgame_factor, where
\* endgame_factor is n / ENDGAME_DENOMINATOR; the division is exact for n = 0
\* and for n = ENDGAME_DENOMINATOR
Blend(idx, n) ==
    ((ENDGAME_DENOMINATOR - n) * king_middle_table[idx + 1] + n * king_end_table[idx + 1])
        \div ENDGAME_DENOMINATOR

king_val(pieces, color, n) == Blend(TableIndex(king(pieces, color), color), n)

\* endgame_factor times ENDGAME_DENOMINATOR
EndgameNumerator(material) ==
    Max(0, Min(ENDGAME_DENOMINATOR, ENDGAME_NUMERATOR - material))

BishopPair(pieces, squares) ==
    IF Cardinality({ s \in squares : pieces[s].piece_type = BISHOP }) >= 2 THEN 40 ELSE 0

\* material, piece-square and bishop pair terms of one colour
SideScore(pieces, squares) ==
    SumOver([s \in squares |-> PieceScore(pieces, s)], squares) + BishopPair(pieces, squares)

\* the score from White's point of view
WhiteScore(pieces, turn, pawn_score, current_moves, opponent_moves, n) ==
    SideScore(pieces, ColorSquares(pieces, WHITE)) - SideScore(pieces, ColorSquares(pieces, BLACK))
    + pawn_score
    + (IF turn = WHITE THEN 1 ELSE -1) * (current_moves - opponent_moves) * 5
    + king_val(pieces, WHITE, n) - king_val(pieces, BLACK, n)

\* "return score if board.turn == chess.WHITE else -score"
Perspective(turn, score) == IF turn = WHITE THEN score ELSE -score

\* evaluate_position past its terminal tests: pawns is what
\* evaluate_pawn_structure returned, nulled the board after the null move
\* pushed to count the opponent's moves, which is popped again
Evaluated(b, pawns, current_moves, nulled) ==
    [value |-> Perspective(b.turn,
                   WhiteScore(b.pieces, b.turn, pawns.score, current_moves,
                              Cardinality(LegalMoveSet(nulled.pieces, nulled.turn)),
                              EndgameNumerator(total_material(b.pieces)))),
     pawn_tt |-> pawns.pawn_tt,
     board |-> pop(nulled)]

\* evaluate_position on a board with the given number of legal moves
EvaluateWith(b, ptt, current_moves) ==
    IF current_moves = 0 /\ is_check(b) THEN [value |-> -MATE, pawn_tt |-> ptt, board |-> b]
    ELSE IF current_moves = 0 \/ is_insufficient_material(b)
    THEN [value |-> 0, pawn_tt |-> ptt, board |-> b]
    ELSE Evaluated(b, evaluate_pawn_structure(b.pieces, ptt), current_moves,
                   push(b, NullMove))

\* evaluate_position(board): the score from the side to move's perspective,
\* the pawn hash table and the board it leaves
evaluate_position(b, ptt) ==
    EvaluateWith(b, ptt, Cardinality(LegalMoveSet(b.pieces, b.turn)))

\* ------------------------------------------------------------------------
\* Move ordering
\* ------------------------------------------------------------------------
\* see(board, move): the second definition of the class, which is the one in
\* force; victim value minus attacker value
see(b, m) ==
    IF ~is_capture(b, m) THEN 0
    ELSE IF ~occupied(b.pieces, m.from_square) THEN 0
    ELSE IF ~occupied(b.pieces, m.to_square) THEN 0
    ELSE see_values[b.pieces[m.to_square].piece_type]
         - see_values[b.pieces[m.from_square].piece_type]

delta_pruning(b, m, stand_pat, alpha, beta) ==
    IF ~is_capture(b, m) THEN FALSE
    ELSE IF ~occupied(b.pieces, m.to_square) THEN FALSE
    ELSE stand_pat + piece_values[b.pieces[m.to_square].piece_type] + DELTA_MARGIN < alpha

\* list.sort(key, reverse=True) is stable: of two entries with equal keys the
\* one earlier in the list stays earlier
\* the entry list.sort(key, reverse=True) puts first: the earliest of those
\* with the greatest key (the sort is stable)
FirstGreatest(s, key) ==
    CHOOSE j \in 1..Len(s) :
        /\ \A k \in 1..Len(s) : key[s[j]] >= key[s[k]]
        /\ \A k \in 1..(j - 1) : key[s[k]] < key[s[j]]

Without(s, i) == SubSeq(s, 1, i - 1) \o SubSeq(s, i + 1, Len(s))

RECURSIVE SortDescending(_, _)
SortDescending(s, key) ==
    IF Len(s) <= 1 THEN s
    ELSE << s[FirstGreatest(s, key)] >> \o SortDescending(Without(s, FirstGreatest(s, key)), key)

HomeSquares == {1, 6, 57, 62, 2, 5, 58, 61}

\* the score order_moves gives a move
MoveScore(b, m, ply, is_qsearch, pv, killers, history) ==
    (IF pv = m THEN 20000 ELSE 0)
    + (IF is_capture(b, m) THEN 10000 + see(b, m)
       ELSE IF m.promotion # 0 THEN 9000 + piece_values[m.promotion]
       ELSE (IF is_qsearch THEN 0
             ELSE IF killers[ply][1] = m THEN 8000
             ELSE IF killers[ply][2] = m THEN 7000 ELSE 0)
            + history[m.from_square][m.to_square] \div 10)
    + (IF square_file(m.to_square) \in 2..5 /\ square_rank(m.to_square) \in 2..5
       THEN 50 ELSE 0)
    + (IF /\ b.fullmove_number < 10
          /\ b.pieces[m.from_square].piece_type \in {KNIGHT, BISHOP}
          /\ m.from_square \in HomeSquares
       THEN 100 ELSE 0)
    + (IF is_castling(b, m) THEN 300 ELSE 0)

\* the moves sorted by their scores; lists of at most three moves are returned
\* as generated
Ordered(b, moves, ply, is_qsearch, pv, killers, history) ==
    IF Len(moves) <= 3 THEN moves
    ELSE SortDescending(moves,
            [m \in { moves[i] : i \in 1..Len(moves) } |->
                MoveScore(b, m, ply, is_qsearch, pv, killers, history)])

\* order_moves(board, ply)
order_moves(b, ply, is_qsearch, pv, killers, history) ==
    Ordered(b, legal_moves(b), ply, is_qsearch, pv, killers, history)

\* ------------------------------------------------------------------------
\* The positions handed to get_best_move
\* ------------------------------------------------------------------------
Fen(pieces, turn) == [pieces |-> pieces, turn |-> turn, fullmove_number |-> 1]

WK == Piece(KING, WHITE)
BK == Piece(KING, BLACK)

\* "RnK5/8/1k6/8/8/8/8/8 w - - 0 1"
FenRookKnight ==
    Fen((56 :> Piece(ROOK, WHITE)) @@ (57 :> Piece(KNIGHT, BLACK)) @@ (58 :> WK) @@ (41 :> BK), WHITE)
\* "k7/8/K7/8/8/8/8/8 w - - 0 1": king against king, insufficient material
FenBareKings == Fen((56 :> BK) @@ (40 :> WK), WHITE)
\* "k1R5/8/K7/8/8/8/8/8 b - - 0 1": Black is checkmated
FenMated == Fen((56 :> BK) @@ (58 :> Piece(ROOK, WHITE)) @@ (40 :> WK), BLACK)
\* "k7/1R6/K7/8/8/8/8/8 b - - 0 1": Black is stalemated
FenStalemate == Fen((56 :> BK) @@ (49 :> Piece(ROOK, WHITE)) @@ (40 :> WK), BLACK)

\* "k7/P1K5/2n5/8/8/8/8/8 b - - 0 1"
FenPawnKnight ==
    Fen((56 :> BK) @@ (48 :> Piece(PAWN, WHITE)) @@ (50 :> WK) @@ (42 :> Piece(KNIGHT, BLACK)),
        BLACK)
\* "r1k5/n7/1Kn5/8/8/8/8/8 w - - 0 1"
FenTwoKnights ==
    Fen((56 :> Piece(ROOK, BLACK)) @@ (58 :> BK) @@ (48 :> Piece(KNIGHT, BLACK))
        @@ (41 :> WK) @@ (42 :> Piece(KNIGHT, BLACK)), WHITE)

\* "k7/2R5/K7/8/8/8/8/8 w - - 0 1": c7c8 mates
FenMateInOne == Fen((56 :> BK) @@ (50 :> Piece(ROOK, WHITE)) @@ (40 :> WK), WHITE)

\* "k1K5/2P5/P1P5/8/8/8/8/8 b - - 0 1": kings and pawns only
FenThreePawns ==
    Fen((56 :> BK) @@ (58 :> WK) @@ (50 :> Piece(PAWN, WHITE)) @@ (40 :> Piece(PAWN, WHITE))
        @@ (42 :> Piece(PAWN, WHITE)), BLACK)

\* "1k6/2R5/K7/8/8/8/8/8 b - - 0 1": b8a8 leads to FenMateInOne
FenKingAside == Fen((57 :> BK) @@ (50 :> Piece(ROOK, WHITE)) @@ (40 :> WK), BLACK)

\* "2K5/8/1kR5/8/8/8/8/8 b - - 0 1": Black is in check
FenRookCheck == Fen((58 :> WK) @@ (42 :> Piece(ROOK, WHITE)) @@ (41 :> BK), BLACK)

\* "1R6/r7/k1K5/8/8/8/8/8 b - - 0 1": the rooks can be traded
FenRookPair ==
    Fen((57 :> Piece(ROOK, WHITE)) @@ (48 :> Piece(ROOK, BLACK)) @@ (40 :> BK) @@ (42 :> WK),
        BLACK)

Fens ==
    { FenRookKnight, FenPawnKnight, FenTwoKnights, FenMateInOne, FenBareKings, FenMated,
      FenStalemate, FenThreePawns, FenKingAside, FenRookCheck, FenRookPair }

\* ------------------------------------------------------------------------
\* State
\* ------------------------------------------------------------------------
VARIABLES
    difficulty,        \* self.difficulty
    target_depth,      \* self.target_depth = self.max_depth
    nodes_searched,    \* self.nodes_searched
    timeout,           \* self.timeout
    killer_moves,      \* self.killer_moves[ply] = << slot 0, slot 1 >>
    history_table,     \* self.history_table[from][to]
    tt,                \* self.tt: transposition key -> entry
    pawn_tt,           \* self.pawn_tt: pawn key -> score
    pv_move,           \* self.pv_move
    deadline_passed,   \* time.time() - self.start_time > self.max_time
    board,             \* the chess.Board of the running get_best_move
    callStack,         \* the frames of the running calls, innermost last
    ret,               \* the value the last returned call handed back
    calls,             \* get_best_move calls made so far
    fen,               \* the argument of the last get_best_move call
    result             \* what the last get_best_move call returned

vars == << difficulty, target_depth, nodes_searched, timeout, killer_moves, history_table,
           tt, pawn_tt, pv_move, deadline_passed, board, callStack, ret, calls, fen, result >>

engineVars == << difficulty, target_depth, nodes_searched, timeout, killer_moves,
                 history_table, tt, pawn_tt, pv_move >>

\* range(64) of "self.killer_moves = [[None, None] for _ in range(64)]"
MAX_PLY == 64

NoKillers == [ply \in 0..(MAX_PLY - 1) |-> << NoMove, NoMove >>]
\* the history grid on the squares the fixture's moves touch
NoHistory == [f \in RegionSquares |-> [t \in RegionSquares |-> 0]]

\* chess.square_name and chess.piece_symbol
FILE_NAMES == << "a", "b", "c", "d", "e", "f", "g", "h" >>
RANK_NAMES == << "1", "2", "3", "4", "5", "6", "7", "8" >>
PIECE_SYMBOLS == << "p", "n", "b", "r", "q", "k" >>
square_name(s) == FILE_NAMES[square_file(s) + 1] \o RANK_NAMES[square_rank(s) + 1]
piece_symbol(t) == PIECE_SYMBOLS[t]

\* what get_best_move returns for a move, and the score it prints with it
MoveResult(m, eval_score) ==
    [from_sq |-> square_name(m.from_square), to_sq |-> square_name(m.to_square),
     promotion |-> IF m.promotion # 0 THEN piece_symbol(m.promotion) ELSE None,
     eval_score |-> eval_score]
\* "return None, None, None"
NoResult == [from_sq |-> None, to_sq |-> None, promotion |-> None, eval_score |-> 0]
NoFen == Fen(<< >>, WHITE)

\* StrongChessEngine.__init__(difficulty=3), as app.py constructs it
Init ==
    /\ difficulty = 3
    /\ target_depth = target_depth_of(3)
    /\ nodes_searched = 0
    /\ timeout = FALSE
    /\ killer_moves = NoKillers
    /\ history_table = NoHistory
    /\ tt = << >>
    /\ pawn_tt = << >>
    /\ pv_move = NoMove
    /\ deadline_passed = FALSE
    /\ board = Board(NoFen)
    /\ callStack = << >>
    /\ ret = [move |-> NoMove, value |-> 0]
    /\ calls = 0
    /\ fen = NoFen
    /\ result = NoResult

Idle == callStack = << >>
Top == callStack[Len(callStack)]
Below == SubSeq(callStack, 1, Len(callStack) - 1)

\* the running call goes on as frame f
Continue(f) == callStack' = Append(Below, f)
\* the running call, now frame f, calls g
Call(f, g) == callStack' = Below \o << f, g >>
\* the running call returns (move, value) to its caller
Return(move, value) ==
    /\ callStack' = Below
    /\ ret' = [move |-> move, value |-> value]

\* check_timeout(): the clock is read; once the deadline has passed it stays
\* passed.  passed is what this read finds.
ClockReads == IF deadline_passed THEN {TRUE} ELSE {FALSE, TRUE}

\* a frame of alpha_beta_search, entered with the board as it stands
AbFrame(depth, alpha, beta, ply, extended, b) ==
    [fn |-> "alpha_beta_search", pc |-> "enter",
     depth |-> depth, alpha |-> alpha, beta |-> beta, ply |-> ply, extended |-> extended,
     key |-> transposition_key(b), moves |-> << >>, move_count |-> 0,
     best_move |-> NoMove, best_value |-> -Inf, alpha_orig |-> alpha, beta_orig |-> beta,
     do_lmr |-> FALSE, new_depth |-> 0,
     entry_stack |-> b.move_stack, raised |-> FALSE]

\* a frame of quiescence
QsFrame(alpha, beta, ply, b) ==
    [fn |-> "quiescence", pc |-> "enter",
     alpha |-> alpha, beta |-> beta, ply |-> ply, stand_pat |-> 0,
     capture_moves |-> << >>, index |-> 0,
     entry_stack |-> b.move_stack]

\* ------------------------------------------------------------------------
\* get_best_move and iterative_deepening_search
\* ------------------------------------------------------------------------
\* "Adjust depth based on position complexity"
effective_depth(n_legal, target) ==
    IF n_legal > 40 THEN Min(target - 1, 4)
    ELSE IF n_legal > 25 THEN Min(target, 5)
    ELSE target

\* app.py get_bot_move: the difficulty is set, update_depth() is run and
\* get_best_move(fen) is called; the board is built from the FEN
GetBestMove(f, d) ==
    /\ Idle
    /\ calls < MaxCalls
    /\ calls' = calls + 1
    /\ fen' = f
    /\ difficulty' = d
    /\ target_depth' = target_depth_of(d)
    /\ board' = Board(f)
    /\ callStack' = << [fn |-> "get_best_move", pc |-> "start"] >>
    /\ UNCHANGED << nodes_searched, timeout, killer_moves, history_table, tt, pawn_tt,
                    pv_move, deadline_passed, ret, result >>

\* "if board.is_game_over(): return None, None, None"
GbmGameOver ==
    /\ ~Idle /\ Top.fn = "get_best_move" /\ Top.pc = "start"
    /\ is_game_over(board)
    /\ result' = NoResult
    /\ callStack' = << >>
    /\ UNCHANGED << engineVars, deadline_passed, board, ret, calls, fen >>

\* "for k in keys[:len(keys)//2]: del self.tt[k]": the first n keys of the
\* dictionary's order go, the others move up
Evicted(table, n) ==
    [k \in { j \in DOMAIN table : table[j].seq > n } |->
        [table[k] EXCEPT !.seq = table[k].seq - n]]

\* "if len(self.tt) > self.tt_max_size", for a table whose cap is max_size
EvictHalfAbove(table, max_size) ==
    IF Cardinality(DOMAIN table) > max_size
    THEN Evicted(table, Cardinality(DOMAIN table) \div 2)
    ELSE table

EvictHalf(table) == EvictHalfAbove(table, tt_max_size)

\* "self.start_time = time.time(); self.timeout = False;
\* self.nodes_searched = 0"
SearchStart ==
    /\ deadline_passed' = FALSE
    /\ timeout' = FALSE
    /\ nodes_searched' = 0

\* get_best_move calls iterative_deepening_search(board, effective_depth),
\* which starts the clock, resets timeout and the node count and evicts half
\* of a table that has grown beyond max_size
GbmSearchCapped(max_size) ==
    /\ ~Idle /\ Top.fn = "get_best_move" /\ Top.pc = "start"
    /\ ~is_game_over(board)
    /\ SearchStart
    /\ tt' = EvictHalfAbove(tt, max_size)
    /\ Call([Top EXCEPT !.pc = "search"],
            [fn |-> "iterative_deepening_search", pc |-> "loop",
             max_depth |-> effective_depth(Len(legal_moves(board)), target_depth),
             depth |-> 2, best_move |-> NoMove, best_value |-> -Inf,
             has_prev_eval |-> FALSE, prev_eval |-> 0,
             alpha |-> -Inf, beta |-> Inf, widen |-> 0, stop |-> FALSE,
             completed |-> [move |-> NoMove, value |-> -Inf]])
    /\ UNCHANGED << difficulty, target_depth, killer_moves, history_table, pawn_tt, pv_move,
                    board, ret, calls, fen, result >>

GbmSearch == GbmSearchCapped(tt_max_size)

IdsTop == ~Idle /\ Top.fn = "iterative_deepening_search"

\* the for loop over depth is over: range exhausted, "if self.timeout: break"
\* or the break after a forced mate
IdsLoopOver(f) == f.depth > f.max_depth \/ timeout \/ f.stop

\* the root search of an iteration in the window (alpha, beta)
IdsSearch(pc, alpha, beta) ==
    Call([Top EXCEPT !.pc = pc, !.alpha = alpha, !.beta = beta, !.widen = 0],
         AbFrame(Top.depth, alpha, beta, 0, FALSE, board))

\* one iteration starts: pv_move is set and the root is searched, in the
\* aspiration window when there is a previous score and depth >= 4
IdsIterate ==
    /\ IdsTop /\ Top.pc = "loop"
    /\ ~IdsLoopOver(Top)
    /\ pv_move' = Top.best_move
    /\ IF Top.has_prev_eval /\ Top.depth >= 4
       THEN IdsSearch("aspiration", AddInf(Top.prev_eval, -aspiration_window),
                      AddInf(Top.prev_eval, aspiration_window))
       ELSE IdsSearch("full", -Inf, Inf)
    /\ UNCHANGED << difficulty, target_depth, nodes_searched, timeout, killer_moves,
                    history_table, tt, pawn_tt, deadline_passed, board, ret, calls, fen,
                    result >>

\* "if alpha < current_best_value < beta: break"
InsideWindow(f, value) == f.alpha < value /\ value < f.beta

\* the window after "alpha -= self.aspiration_window; beta += ..."
Widened(f) ==
    [f EXCEPT !.alpha = AddInf(f.alpha, -aspiration_window),
              !.beta = AddInf(f.beta, aspiration_window),
              !.widen = f.widen + 1]

\* an aspiration search came back outside its window: the window is widened
\* and the root searched again, with the full window after the last widening
IdsWiden ==
    /\ IdsTop /\ Top.pc = "aspiration"
    /\ ~InsideWindow(Top, ret.value)
    /\ IF Top.widen + 1 >= aspiration_max_widening
       THEN Call([Widened(Top) EXCEPT !.pc = "full"],
                 AbFrame(Top.depth, -Inf, Inf, 0, FALSE, board))
       ELSE Call(Widened(Top),
                 AbFrame(Top.depth, Widened(Top).alpha, Widened(Top).beta, 0, FALSE, board))
    /\ UNCHANGED << engineVars, deadline_passed, board, ret, calls, fen, result >>

\* "if not self.timeout and current_best_move": the iteration's result is
\* kept, and a forced mate stops the deepening
IdsAdopt(f, r, timed_out) ==
    IF ~timed_out /\ IsMove(r.move)
    THEN [f EXCEPT !.best_move = r.move, !.best_value = r.value,
                   !.has_prev_eval = TRUE, !.prev_eval = r.value,
                   !.stop = Abs(r.value) > MATE_BOUND]
    ELSE f

\* history of the loop: what the root search of the last iteration that came
\* back with the timeout flag clear returned
IdsCompleted(f, r, timed_out) ==
    IF ~timed_out THEN [f EXCEPT !.completed = [move |-> r.move, value |-> r.value]] ELSE f

\* the iteration's search is over
IdsIterationDone ==
    /\ IdsTop
    /\ \/ Top.pc = "full"
       \/ Top.pc = "aspiration" /\ InsideWindow(Top, ret.value)
    /\ Continue([IdsCompleted(IdsAdopt(Top, ret, timeout), ret, timeout)
                    EXCEPT !.pc = "loop", !.depth = Top.depth + 1])
    /\ UNCHANGED << engineVars, deadline_passed, board, ret, calls, fen, result >>

\* "return best_move, best_value"
IdsReturn ==
    /\ IdsTop /\ Top.pc = "loop"
    /\ IdsLoopOver(Top)
    /\ Return(Top.best_move, Top.best_value)
    /\ UNCHANGED << engineVars, deadline_passed, board, calls, fen, result >>

\* the fallback's state after a move scored: a later move replaces the best
\* one on a strictly greater score; ev is evaluate_position on the board with
\* the move pushed, which is popped again
FallbackScored(before, move, ev) ==
    [best_move |-> IF ev.value > before.best_score THEN move ELSE before.best_move,
     best_score |-> Max(ev.value, before.best_score),
     pawn_tt |-> ev.pawn_tt,
     board |-> pop(ev.board)]

FallbackTry(before, move) ==
    FallbackScored(before, move, evaluate_position(push(before.board, move), before.pawn_tt))

\* get_best_move's fallback: the state after the first n of the ordered moves
\* have been played and evaluated one after the other
RECURSIVE FallbackScan(_, _, _, _)
FallbackScan(b, ordered_moves, n, ptt) ==
    IF n = 0 THEN [best_move |-> NoMove, best_score |-> -Inf, pawn_tt |-> ptt, board |-> b]
    ELSE FallbackTry(FallbackScan(b, ordered_moves, n - 1, ptt), ordered_moves[n])

\* "for move in ordered_moves[:5]"
Fallback(b, ordered_moves) ==
    FallbackScan(b, ordered_moves, Min(FALLBACK_MOVES, Len(ordered_moves)), pawn_tt)

\* get_best_move returns: the move found, or "random.choice(list(
\* board.legal_moves))" when there is none
GbmReturn(found) ==
    /\ pawn_tt' = found.pawn_tt
    /\ board' = found.board
    /\ \E m \in IF IsMove(found.best_move) THEN {found.best_move}
                ELSE LegalMoveSet(board.pieces, board.turn) :
          result' = MoveResult(m, ret.value)

\* the search is back in get_best_move: the fallbacks and the return
GbmFinish ==
    /\ ~Idle /\ Top.fn = "get_best_move" /\ Top.pc = "search"
    /\ GbmReturn(IF ~IsMove(ret.move)
                 THEN Fallback(board, order_moves(board, 0, FALSE, pv_move, killer_moves,
                                                  history_table))
                 ELSE [best_move |-> ret.move, best_score |-> -Inf, pawn_tt |-> pawn_tt,
                       board |-> board])
    /\ callStack' = << >>
    /\ UNCHANGED << difficulty, target_depth, nodes_searched, timeout, killer_moves,
                    history_table, tt, pv_move, deadline_passed, ret, calls, fen >>

\* ------------------------------------------------------------------------
\* alpha_beta_search
\* ------------------------------------------------------------------------
AbTop == ~Idle /\ Top.fn = "alpha_beta_search"

\* "if self.nodes_searched % 1000 == 0 and self.check_timeout()": the clock is
\* read only on every NODE_CHECK_INTERVAL-th node
AbReadsClock == nodes_searched % NODE_CHECK_INTERVAL = 0

\* the entry passes the timeout check and counts the node
AbPassesClock ==
    /\ AbTop /\ Top.pc = "enter"
    /\ AbReadsClock => ~deadline_passed
    /\ nodes_searched' = nodes_searched + 1

\* "return None, 0" on a timeout found at the entry
AbTimeout ==
    /\ AbTop /\ Top.pc = "enter"
    /\ AbReadsClock
    /\ \E passed \in ClockReads : passed
    /\ deadline_passed' = TRUE
    /\ timeout' = TRUE
    /\ Return(NoMove, 0)
    /\ UNCHANGED << difficulty, target_depth, nodes_searched, killer_moves, history_table,
                    tt, pawn_tt, pv_move, board, calls, fen, result >>

\* a check extension that does not look at the extended flag
ExtendsCheckAgain(f, in_check) ==
    in_check /\ f.depth <= 2 /\ f.depth < target_depth * 2

\* the check extension applies
ExtendsCheck(f, in_check) ==
    ~f.extended /\ in_check /\ f.depth <= 2 /\ f.depth < target_depth * 2

\* the frame after the check extension, with the position's key; raised
\* records that this call is the one that raised its depth
Extended(f, b, ext) ==
    [f EXCEPT !.depth = IF ext THEN f.depth + 1 ELSE f.depth,
              !.extended = f.extended \/ ext,
              !.raised = ext,
              !.key = transposition_key(b)]

\* a probe that takes the entry whatever its depth
TTHitAnyDepth(f) == f.key \in DOMAIN tt

\* "if tt_entry and tt_entry['depth'] >= depth"
TTHit(f) == f.key \in DOMAIN tt /\ tt[f.key].depth >= f.depth

\* the window after a usable 'lower' or 'upper' entry
Probed(f, hit) ==
    [f EXCEPT !.alpha = IF hit /\ tt[f.key].flag = "lower"
                        THEN Max(f.alpha, tt[f.key].value) ELSE f.alpha,
              !.beta = IF hit /\ tt[f.key].flag = "upper"
                       THEN Min(f.beta, tt[f.key].value) ELSE f.beta]

\* "if depth <= 3 and not board.is_check() and not board.is_checkmate()"
TakesStaticEval(f, in_check, no_moves) ==
    f.depth <= 3 /\ ~in_check /\ ~(no_moves /\ in_check)

\* null-move pruning applies
NullMoveApplies(f, in_check, material) ==
    /\ f.depth >= 3 /\ ~in_check
    /\ material >= null_move_material_threshold
    /\ material > endgame_material_threshold

\* the way alpha_beta_search takes from a frame f that has been extended and
\* probed: the tests in the order of the code
EntryKind(f, b, hit, in_check, no_moves, static_eval) ==
    IF hit /\ (tt[f.key].flag = "exact" \/ f.alpha >= f.beta) THEN "tt"
    ELSE IF no_moves /\ in_check THEN "mate"
    ELSE IF no_moves \/ is_insufficient_material(b) \/ can_claim_threefold_repetition(b)
         THEN "draw"
    ELSE IF f.depth = 0 THEN "leaf"
    ELSE IF /\ TakesStaticEval(f, in_check, no_moves)
            /\ static_eval - reverse_futility_margin_base * f.depth >= f.beta THEN "rfp"
    ELSE IF NullMoveApplies(f, in_check, total_material(b.pieces)) THEN "null"
    ELSE "moves"

\* what the entry leaves: ev is evaluate_position on the board, taken on the
\* ways that reach the reverse futility test
Entered(f, b, kind, evaluated, ev) ==
    [kind |-> kind,
     frame |-> f,
     static_eval |-> ev.value,
     pawn_tt |-> IF evaluated THEN ev.pawn_tt ELSE pawn_tt,
     board |-> IF evaluated THEN ev.board ELSE b]

EnteredKind(f, b, kind, in_check, no_moves, ev) ==
    Entered(f, b, kind,
            kind \in {"rfp", "null", "moves"} /\ TakesStaticEval(f, in_check, no_moves), ev)

EnteredProbed(f, b, hit, in_check, no_moves, ev) ==
    EnteredKind(f, b, EntryKind(f, b, hit, in_check, no_moves, ev.value), in_check, no_moves,
                ev)

EnteredExtended(f, b, in_check) ==
    EnteredProbed(Probed(f, TTHit(f)), b, TTHit(f), in_check,
                  LegalMoveSet(b.pieces, b.turn) = {}, evaluate_position(b, pawn_tt))

EnteredChecked(f, b, in_check) ==
    EnteredExtended(Extended(f, b, ExtendsCheck(f, in_check)), b, in_check)

\* what alpha_beta_search finds between its entry and its move loop: the
\* check extension, the table probe, the terminal tests, the leaf test, the
\* reverse futility test and the null-move test
AbEntry(f, b) == EnteredChecked(f, b, is_check(b))

\* "return tt_entry['move'], tt_entry['value']"
AbTTReturn ==
    /\ AbPassesClock
    /\ AbEntry(Top, board).kind = "tt"
    /\ Return(tt[transposition_key(board)].move, tt[transposition_key(board)].value)
    /\ UNCHANGED << difficulty, target_depth, timeout, killer_moves, history_table, tt,
                    pawn_tt, pv_move, deadline_passed, board, calls, fen, result >>

\* "return None, -100000 + ply" and the draws' "return None, 0"
TerminalReturn(kind) ==
    /\ kind \in {"mate", "draw"}
    /\ Return(NoMove, IF kind = "mate" THEN -MATE + Top.ply ELSE 0)

AbTerminal ==
    /\ AbPassesClock
    /\ TerminalReturn(AbEntry(Top, board).kind)
    /\ UNCHANGED << difficulty, target_depth, timeout, killer_moves, history_table, tt,
                    pawn_tt, pv_move, deadline_passed, board, calls, fen, result >>

LeafCall(e) ==
    /\ e.kind = "leaf"
    /\ Call([e.frame EXCEPT !.pc = "leaf"],
            QsFrame(e.frame.alpha, e.frame.beta, e.frame.ply, board))

\* "if depth == 0": quiescence is called
AbLeaf ==
    /\ AbPassesClock
    /\ LeafCall(AbEntry(Top, board))
    /\ UNCHANGED << difficulty, target_depth, timeout, killer_moves, history_table, tt,
                    pawn_tt, pv_move, deadline_passed, board, ret, calls, fen, result >>

\* "return None, self.quiescence(board, alpha, beta, ply)"
AbLeafReturn ==
    /\ AbTop /\ Top.pc = "leaf"
    /\ Return(NoMove, ret.value)
    /\ UNCHANGED << engineVars, deadline_passed, board, calls, fen, result >>

ReverseFutilityReturn(e) ==
    /\ e.kind = "rfp"
    /\ pawn_tt' = e.pawn_tt
    /\ board' = e.board
    /\ Return(NoMove, e.static_eval)

\* reverse futility pruning: "return None, static_eval"
AbReverseFutility ==
    /\ AbPassesClock
    /\ ReverseFutilityReturn(AbEntry(Top, board))
    /\ UNCHANGED << difficulty, target_depth, timeout, killer_moves, history_table, tt,
                    pv_move, deadline_passed, calls, fen, result >>

\* the reduced search is called on the board with the null move pushed
NullCall(f, nulled) ==
    /\ board' = nulled
    /\ Call([f EXCEPT !.pc = "null"],
            AbFrame(f.depth - 1 - null_move_reduction,
                    -f.beta, AddInf(-f.beta, 1), f.ply + 1, f.extended, nulled))

NullMovePush(e) ==
    /\ e.kind = "null"
    /\ pawn_tt' = e.pawn_tt
    /\ NullCall(e.frame, push(e.board, NullMove))

\* null-move pruning: the null move is pushed and the reduced search called
AbNullMove ==
    /\ AbPassesClock
    /\ NullMovePush(AbEntry(Top, board))
    /\ UNCHANGED << difficulty, target_depth, timeout, killer_moves, history_table, tt,
                    pv_move, deadline_passed, ret, calls, fen, result >>

\* "moves = self.order_moves(board, ply)" and the loop's initial state
AbLoopStart(f, b) ==
    [f EXCEPT !.pc = "loop",
              !.moves = order_moves(b, f.ply, FALSE, pv_move, killer_moves, history_table),
              !.best_move = NoMove, !.best_value = -Inf,
              !.alpha_orig = f.alpha, !.beta_orig = f.beta, !.move_count = 0]

\* the null-move search is back: the null move is popped; "return None, beta"
\* on a fail high, the move loop otherwise
AbNullReturn ==
    /\ AbTop /\ Top.pc = "null"
    /\ board' = pop(board)
    /\ IF -ret.value >= Top.beta
       THEN Return(NoMove, Top.beta)
       ELSE Continue(AbLoopStart(Top, pop(board))) /\ UNCHANGED ret
    /\ UNCHANGED << engineVars, deadline_passed, calls, fen, result >>

MovesStart(e) ==
    /\ e.kind = "moves"
    /\ pawn_tt' = e.pawn_tt
    /\ board' = e.board
    /\ Continue(AbLoopStart(e.frame, e.board))

\* no pruning applies: the moves are generated and ordered
AbGenerate ==
    /\ AbPassesClock
    /\ MovesStart(AbEntry(Top, board))
    /\ UNCHANGED << difficulty, target_depth, timeout, killer_moves, history_table, tt,
                    pv_move, deadline_passed, ret, calls, fen, result >>

\* the loop has a next move and the timeout flag lets it run
AbHasMove ==
    /\ AbTop /\ Top.pc = "loop"
    /\ Top.move_count < Len(Top.moves)
    /\ ~timeout

AbMove == Top.moves[Top.move_count + 1]

\* "if depth == 1 and not board.is_check() and not board.is_capture(move) and
\* not move.promotion"
FutilityApplies(f, m, b) ==
    f.depth = 1 /\ ~is_check(b) /\ ~is_capture(b, m) /\ m.promotion = 0

\* the move is pushed to see whether it gives check, and popped
FutilityTried(low, tried, ptt) ==
    [skip |-> low /\ ~is_check(tried), pawn_tt |-> ptt, board |-> pop(tried)]

\* the static evaluation is taken: "if static_eval + margin < alpha"
FutilityEvaluated(f, m, ev) ==
    IF ev.value + futility_margin_base * f.depth < f.alpha
    THEN FutilityTried(TRUE, push(ev.board, m), ev.pawn_tt)
    ELSE [skip |-> FALSE, pawn_tt |-> ev.pawn_tt, board |-> ev.board]

\* futility pruning at depth 1: whether the move is skipped, and the pawn hash
\* table and the board the test leaves
Futility(f, m, b) ==
    IF FutilityApplies(f, m, b)
    THEN FutilityEvaluated(f, m, evaluate_position(b, pawn_tt))
    ELSE [skip |-> FALSE, pawn_tt |-> pawn_tt, board |-> b]

FutilitySkip(fu) ==
    /\ fu.skip
    /\ pawn_tt' = fu.pawn_tt
    /\ board' = fu.board

\* "if not gives_check: continue"
AbFutilitySkip ==
    /\ AbHasMove
    /\ FutilitySkip(Futility(Top, AbMove, board))
    /\ Continue([Top EXCEPT !.move_count = Top.move_count + 1])
    /\ UNCHANGED << difficulty, target_depth, nodes_searched, timeout, killer_moves,
                    history_table, tt, pv_move, deadline_passed, ret, calls, fen, result >>

\* "reduction = 1 + min(move_count // 6, depth // 2)", at most depth - 1
Reduction(depth, move_count) ==
    Min(1 + Min(move_count \div 6, depth \div 2), depth - 1)

\* late move reduction applies to the move_count-th move of the loop
DoLmr(f, m, b, move_count) ==
    /\ move_count > 3 /\ f.depth >= 3
    /\ ~is_capture(b, m) /\ m.promotion = 0
    /\ m # killer_moves[f.ply][1] /\ m # killer_moves[f.ply][2]

\* the depth the move is searched to first
Lmr(f, do_lmr, move_count) ==
    [do_lmr |-> do_lmr,
     new_depth |-> IF do_lmr THEN Max(0, f.depth - 1 - Reduction(f.depth, move_count))
                   ELSE f.depth - 1]

\* "board.push(move)" and the call of the search below
MoveCall(f, lmr, pushed) ==
    /\ board' = pushed
    /\ Call([f EXCEPT !.pc = "searched", !.move_count = f.move_count + 1,
                      !.do_lmr = lmr.do_lmr, !.new_depth = lmr.new_depth],
            AbFrame(lmr.new_depth, -f.beta, -f.alpha, f.ply + 1, f.extended, pushed))

MoveSearch(f, m, fu) ==
    /\ ~fu.skip
    /\ pawn_tt' = fu.pawn_tt
    /\ MoveCall(f, Lmr(f, DoLmr(f, m, fu.board, f.move_count + 1), f.move_count + 1),
                push(fu.board, m))

\* the move is pushed and searched, at the reduced depth when LMR applies
AbSearchMove ==
    /\ AbHasMove
    /\ MoveSearch(Top, AbMove, Futility(Top, AbMove, board))
    /\ UNCHANGED << difficulty, target_depth, nodes_searched, timeout, killer_moves,
                    history_table, tt, pv_move, deadline_passed, ret, calls, fen, result >>

\* "if value > alpha and value < beta and new_depth < depth - 1"
NeedsResearch(f, value) ==
    f.do_lmr /\ value > f.alpha /\ value < f.beta /\ f.new_depth < f.depth - 1

\* the reduced search came back inside the window: full-depth re-search
AbResearch ==
    /\ AbTop /\ Top.pc = "searched"
    /\ NeedsResearch(Top, -ret.value)
    /\ Call([Top EXCEPT !.pc = "researched"],
            AbFrame(Top.depth - 1, -Top.beta, -Top.alpha, Top.ply + 1, Top.extended, board))
    /\ UNCHANGED << engineVars, deadline_passed, board, ret, calls, fen, result >>

\* the killer slots of a ply after a quiet move m cut off
KillersAfter(killers, ply, m) ==
    IF m # killers[ply][1]
    THEN [killers EXCEPT ![ply] = << m, killers[ply][1] >>]
    ELSE killers

\* "if value > best_value" and the cutoff test "if alpha >= beta"
Better(f, value) == value > f.best_value
Cutoff(f, value) == Better(f, value) /\ Max(f.alpha, value) >= f.beta

\* best_value, best_move and alpha after the move's value
Updated(f, move, value) ==
    IF Better(f, value)
    THEN [f EXCEPT !.best_value = value, !.best_move = move, !.alpha = Max(f.alpha, value),
                   !.pc = IF Cutoff(f, value) THEN "store" ELSE "loop"]
    ELSE [f EXCEPT !.pc = "loop"]

\* killers and history after the move's value: a quiet move that cuts off
\* enters both
Learned(f, move, refutes) ==
    /\ killer_moves' = IF refutes THEN KillersAfter(killer_moves, f.ply, move)
                       ELSE killer_moves
    /\ history_table' =
          IF refutes
          THEN [history_table EXCEPT ![move.from_square][move.to_square] =
                                          @ + f.depth * f.depth]
          ELSE history_table

MoveDone(f, move, value, popped) ==
    /\ board' = popped
    /\ Continue(Updated(f, move, value))
    /\ Learned(f, move, Cutoff(f, value) /\ ~is_capture(popped, move))

\* the move's search is over: the move is popped, best_value, best_move and
\* alpha are updated, and a cutoff updates killers and history and leaves the
\* loop
AbMoveDone ==
    /\ AbTop
    /\ \/ Top.pc = "searched" /\ ~NeedsResearch(Top, -ret.value)
       \/ Top.pc = "researched"
    /\ MoveDone(Top, Top.moves[Top.move_count], -ret.value, pop(board))
    /\ UNCHANGED << difficulty, target_depth, nodes_searched, timeout, tt, pawn_tt, pv_move,
                    deadline_passed, ret, calls, fen, result >>

\* the flag of the entry alpha_beta_search stores
Flag(f) ==
    IF f.best_value <= f.alpha_orig THEN "upper"
    ELSE IF f.best_value >= f.beta_orig THEN "lower"
    ELSE "exact"

\* the place of a key in the dictionary's order: a key already present keeps
\* its place, a new key goes last
TTPlace(table, key) ==
    IF key \in DOMAIN table THEN table[key].seq ELSE Cardinality(DOMAIN table) + 1

\* the entry stored; ply (the ply of the call that stores) and seq (the
\* entry's place in the dictionary's order) are not fields of the entry
TTEntry(f, seq) ==
    [depth |-> f.depth, value |-> f.best_value, flag |-> Flag(f), move |-> f.best_move,
     ply |-> f.ply, seq |-> seq]

\* self.tt[key] = entry
TTStore(table, key, entry) ==
    [k \in DOMAIN table \cup {key} |-> IF k = key THEN entry ELSE table[k]]

\* the loop is over (moves exhausted, "if self.timeout: break" or a cutoff):
\* the entry is stored and the search returns
AbStore ==
    /\ AbTop
    /\ \/ Top.pc = "store"
       \/ Top.pc = "loop" /\ (Top.move_count >= Len(Top.moves) \/ timeout)
    /\ tt' = TTStore(tt, Top.key, TTEntry(Top, TTPlace(tt, Top.key)))
    /\ Return(Top.best_move, IF Top.best_value # -Inf THEN Top.best_value ELSE 0)
    /\ UNCHANGED << difficulty, target_depth, nodes_searched, timeout, killer_moves,
                    history_table, pawn_tt, pv_move, deadline_passed, board, calls, fen,
                    result >>

\* ------------------------------------------------------------------------
\* quiescence
\* ------------------------------------------------------------------------
QsTop == ~Idle /\ Top.fn = "quiescence"

\* the captures sorted by SEE, greatest first
BySee(b, captures) ==
    SortDescending(captures, [m \in { captures[i] : i \in 1..Len(captures) } |-> see(b, m)])

\* every legal move, sorted: what quiescence would try if it did not keep to
\* the captures
every_move(b) == BySee(b, legal_moves(b))

\* "[m for m in board.legal_moves if board.is_capture(m)]", sorted
capture_moves(b) == BySee(b, SelectSeq(legal_moves(b), LAMBDA m : is_capture(b, m)))

\* stand pat: "return beta" when the static evaluation reaches beta, the
\* capture loop otherwise
StandPat(f, ev) ==
    /\ pawn_tt' = ev.pawn_tt
    /\ board' = ev.board
    /\ IF ev.value >= f.beta
       THEN Return(NoMove, f.beta)
       ELSE /\ Continue([f EXCEPT !.pc = "loop", !.stand_pat = ev.value,
                                  !.alpha = Max(f.alpha, ev.value),
                                  !.capture_moves = capture_moves(ev.board),
                                  !.index = 0])
            /\ UNCHANGED ret

QsEnter ==
    /\ QsTop /\ Top.pc = "enter"
    /\ StandPat(Top, evaluate_position(board, pawn_tt))
    /\ UNCHANGED << difficulty, target_depth, nodes_searched, timeout, killer_moves,
                    history_table, tt, pv_move, deadline_passed, calls, fen, result >>

QsHasMove == QsTop /\ Top.pc = "loop" /\ Top.index < Len(Top.capture_moves)

QsMove == Top.capture_moves[Top.index + 1]

\* the captures are exhausted: "return alpha"
QsReturn ==
    /\ QsTop /\ Top.pc = "loop"
    /\ Top.index >= Len(Top.capture_moves)
    /\ Return(NoMove, Top.alpha)
    /\ UNCHANGED << engineVars, deadline_passed, board, calls, fen, result >>

\* "if self.check_timeout(): break", then "return alpha"
QsTimeout ==
    /\ QsHasMove
    /\ \E passed \in ClockReads : passed
    /\ deadline_passed' = TRUE
    /\ timeout' = TRUE
    /\ Return(NoMove, Top.alpha)
    /\ UNCHANGED << difficulty, target_depth, nodes_searched, killer_moves, history_table,
                    tt, pawn_tt, pv_move, board, calls, fen, result >>

\* "if self.delta_pruning(...): continue"
QsDeltaSkip ==
    /\ QsHasMove
    /\ \E passed \in ClockReads : ~passed
    /\ delta_pruning(board, QsMove, Top.stand_pat, Top.alpha, Top.beta)
    /\ Continue([Top EXCEPT !.index = Top.index + 1])
    /\ UNCHANGED << engineVars, deadline_passed, board, ret, calls, fen, result >>

\* the capture is pushed and quiescence called on the position after it
QsCapture ==
    /\ QsHasMove
    /\ \E passed \in ClockReads : ~passed
    /\ ~delta_pruning(board, QsMove, Top.stand_pat, Top.alpha, Top.beta)
    /\ board' = push(board, QsMove)
    /\ Call([Top EXCEPT !.pc = "searched", !.index = Top.index + 1],
            QsFrame(-Top.beta, -Top.alpha, Top.ply + 1, push(board, QsMove)))
    /\ UNCHANGED << engineVars, deadline_passed, ret, calls, fen, result >>

\* "if score >= beta: return beta", "if score > alpha: alpha = score"
QsScored(f, score) ==
    IF score >= f.beta
    THEN Return(NoMove, f.beta)
    ELSE /\ Continue([f EXCEPT !.pc = "loop", !.alpha = Max(f.alpha, score)])
         /\ UNCHANGED ret

\* the capture's search is back: the move is popped and its score taken
QsMoveDone ==
    /\ QsTop /\ Top.pc = "searched"
    /\ board' = pop(board)
    /\ QsScored(Top, -ret.value)
    /\ UNCHANGED << engineVars, deadline_passed, calls, fen, result >>

\* ------------------------------------------------------------------------
\* The engine
\* ------------------------------------------------------------------------
\* the steps of a running search
Searching ==
    \/ IdsIterate
    \/ IdsWiden
    \/ IdsIterationDone
    \/ IdsReturn
    \/ GbmFinish
    \/ AbTimeout
    \/ AbTTReturn
    \/ AbTerminal
    \/ AbLeaf
    \/ AbLeafReturn
    \/ AbReverseFutility
    \/ AbNullMove
    \/ AbNullReturn
    \/ AbGenerate
    \/ AbFutilitySkip
    \/ AbSearchMove
    \/ AbResearch
    \/ AbMoveDone
    \/ AbStore
    \/ QsEnter
    \/ QsReturn
    \/ QsTimeout
    \/ QsDeltaSkip
    \/ QsCapture
    \/ QsMoveDone

Next ==
    \/ \E f \in Fens, d \in 1..MaxDifficulty : GetBestMove(f, d)
    \/ GbmGameOver
    \/ GbmSearch
    \/ Searching

Spec == Init /\ [][Next]_vars

\* The engine with a table that holds SmallTable entries before it is cut in
\* half, in the place of tt_max_size: the cap is then within reach of the
\* positions searched here
NextSmallTable ==
    \/ \E f \in Fens, d \in 1..MaxDifficulty : GetBestMove(f, d)
    \/ GbmGameOver
    \/ GbmSearchCapped(SmallTable)
    \/ Searching

SpecSmallTable == Init /\ [][NextSmallTable]_vars

\* ------------------------------------------------------------------------
\* The search without the transposition table
\* ------------------------------------------------------------------------
\* alpha_beta_search and quiescence as functions of the board and of the
\* tables they read and write, with the table probe (lines 513-522) and the
\* table store (lines 627-638) left out and the clock never running out.
\* s is the record of the killers, the history and the pawn hash table.
RECURSIVE QsPlain(_, _, _, _, _), QsPlainLoop(_, _, _, _, _, _, _, _)
QsPlainLoop(b, captures, i, stand_pat, alpha, beta, ply, ptt) ==
    IF i > Len(captures) THEN [value |-> alpha, pawn_tt |-> ptt]
    ELSE IF delta_pruning(b, captures[i], stand_pat, alpha, beta)
    THEN QsPlainLoop(b, captures, i + 1, stand_pat, alpha, beta, ply, ptt)
    ELSE LET r == QsPlain(push(b, captures[i]), -beta, -alpha, ply + 1, ptt)
         IN  IF -r.value >= beta THEN [value |-> beta, pawn_tt |-> r.pawn_tt]
             ELSE QsPlainLoop(b, captures, i + 1, stand_pat, Max(alpha, -r.value), beta, ply,
                              r.pawn_tt)

QsPlain(b, alpha, beta, ply, ptt) ==
    LET ev == evaluate_position(b, ptt)
    IN  IF ev.value >= beta THEN [value |-> beta, pawn_tt |-> ev.pawn_tt]
        ELSE QsPlainLoop(b, capture_moves(b), 1, ev.value, Max(alpha, ev.value), beta, ply,
                         ev.pawn_tt)

RECURSIVE AbPlain(_, _, _, _, _, _, _), AbPlainLoop(_, _, _, _, _, _, _, _, _, _, _)
\* the move loop from its i-th move on
AbPlainLoop(b, depth, moves, i, alpha, beta, ply, extended, best_move, best_value, s) ==
    IF i > Len(moves)
    THEN [move |-> best_move, value |-> IF best_value # -Inf THEN best_value ELSE 0, s |-> s]
    ELSE
    LET m == moves[i]
        quiet == ~is_capture(b, m) /\ m.promotion = 0
        probes == depth = 1 /\ ~is_check(b) /\ quiet
        ev == evaluate_position(b, s.pawn_tt)
        s1 == IF probes THEN [s EXCEPT !.pawn_tt = ev.pawn_tt] ELSE s
        skip == /\ probes
                /\ ev.value + futility_margin_base * depth < alpha
                /\ ~is_check(push(b, m))
        do_lmr == /\ i > 3 /\ depth >= 3 /\ quiet
                  /\ m # s.killers[ply][1] /\ m # s.killers[ply][2]
        new_depth == IF do_lmr THEN Max(0, depth - 1 - Reduction(depth, i)) ELSE depth - 1
        first == AbPlain(push(b, m), new_depth, -beta, -alpha, ply + 1, extended, s1)
        again == /\ do_lmr /\ -first.value > alpha /\ -first.value < beta
                 /\ new_depth < depth - 1
        r == IF again
             THEN AbPlain(push(b, m), depth - 1, -beta, -alpha, ply + 1, extended, first.s)
             ELSE first
        value == -r.value
    IN  IF skip
        THEN AbPlainLoop(b, depth, moves, i + 1, alpha, beta, ply, extended, best_move,
                         best_value, s1)
        ELSE IF value > best_value /\ Max(alpha, value) >= beta
        THEN [move |-> m, value |-> value,
              s |-> IF is_capture(b, m) THEN r.s
                    ELSE [r.s EXCEPT !.killers = KillersAfter(r.s.killers, ply, m),
                                     !.history[m.from_square][m.to_square] = @ + depth * depth]]
        ELSE IF value > best_value
        THEN AbPlainLoop(b, depth, moves, i + 1, Max(alpha, value), beta, ply, extended, m,
                         value, r.s)
        ELSE AbPlainLoop(b, depth, moves, i + 1, alpha, beta, ply, extended, best_move,
                         best_value, r.s)

AbPlain(b, depth0, alpha, beta, ply, extended0, s) ==
    LET in_check == is_check(b)
        ext == ~extended0 /\ in_check /\ depth0 <= 2 /\ depth0 < target_depth * 2
        depth == IF ext THEN depth0 + 1 ELSE depth0
        extended == extended0 \/ ext
        no_moves == LegalMoveSet(b.pieces, b.turn) = {}
        takes == depth <= 3 /\ ~in_check
        ev == evaluate_position(b, s.pawn_tt)
        s1 == IF takes THEN [s EXCEPT !.pawn_tt = ev.pawn_tt] ELSE s
        nulls == /\ depth >= 3 /\ ~in_check
                 /\ total_material(b.pieces) >= null_move_material_threshold
                 /\ total_material(b.pieces) > endgame_material_threshold
        n == AbPlain(push(b, NullMove), depth - 1 - null_move_reduction, -beta,
                     AddInf(-beta, 1), ply + 1, extended, s1)
        s2 == IF nulls THEN n.s ELSE s1
        q == QsPlain(b, alpha, beta, ply, s.pawn_tt)
    IN  IF no_moves /\ in_check THEN [move |-> NoMove, value |-> -MATE + ply, s |-> s]
        ELSE IF no_moves \/ is_insufficient_material(b) \/ can_claim_threefold_repetition(b)
        THEN [move |-> NoMove, value |-> 0, s |-> s]
        ELSE IF depth = 0
        THEN [move |-> NoMove, value |-> q.value, s |-> [s EXCEPT !.pawn_tt = q.pawn_tt]]
        ELSE IF takes /\ ev.value - reverse_futility_margin_base * depth >= beta
        THEN [move |-> NoMove, value |-> ev.value, s |-> s1]
        ELSE IF nulls /\ -n.value >= beta
        THEN [move |-> NoMove, value |-> beta, s |-> n.s]
        ELSE AbPlainLoop(b, depth, order_moves(b, ply, FALSE, NoMove, s2.killers, s2.history),
                         1, alpha, beta, ply, extended, NoMove, -Inf, s2)

\* alpha_beta_search(board, d, -inf, inf) on the position of key k, by an
\* engine whose killers, history and pawn hash table are empty
SearchWithoutTT(k, d) ==
    AbPlain(Board([pieces |-> k.pieces, turn |-> k.turn, fullmove_number |-> 1]),
            d, -Inf, Inf, 0, FALSE,
            [killers |-> NoKillers, history |-> NoHistory, pawn_tt |-> << >>])

\* ------------------------------------------------------------------------
\* Properties
\* ------------------------------------------------------------------------
\* get_best_move has returned
Returned == Idle /\ calls > 0

\* the legal moves of the position get_best_move was called on
RootMoves == LegalMoveSet(fen.pieces, fen.turn)

\* the triple (from, to, promotion) of the result is that of move m
Names(r, m) ==
    /\ r.from_sq = square_name(m.from_square)
    /\ r.to_sq = square_name(m.to_square)
    /\ r.promotion = (IF m.promotion # 0 THEN piece_symbol(m.promotion) ELSE None)

\* the move of the root position the result names
ResultMove == CHOOSE m \in RootMoves : Names(result, m)

\* C1: whenever get_best_move has returned on a position with at least one
\* legal move, positions of insufficient material such as king against king
\* included, the triple it returned names a legal move of that position.
C1_ReturnsLegalMove ==
    (Returned /\ RootMoves # {}) => \E m \in RootMoves : Names(result, m)

\* C2: called on a position without legal moves (checkmate or stalemate),
\* get_best_move returns (None, None, None) at once: it starts no search,
\* leaves the engine's state alone and raises nothing.
C2_NoMovesNoResult ==
    [][ (~Idle /\ Top.fn = "get_best_move" /\ Top.pc = "start"
           /\ LegalMoveSet(board.pieces, board.turn) = {})
        => (Idle' /\ result' = NoResult /\ UNCHANGED engineVars) ]_vars

\* get_best_move has returned (None, None, None) on a stalemate
C2_Witness == Returned /\ is_stalemate(Board(fen)) /\ result = NoResult

\* a call returns in this step
Returns == ~Idle /\ Len(callStack') < Len(callStack)

\* C3: every return of alpha_beta_search and of quiescence, whatever path it
\* takes, leaves the board's move stack as it was at entry; evaluate_position
\* leaves the board as it found it; and when get_best_move returns the board
\* is the position it was given, with an empty move stack.
C3_MakeUnmakeBalanced ==
    [][ /\ (Returns /\ Top.fn \in {"alpha_beta_search", "quiescence"})
             => board'.move_stack = Top.entry_stack
        /\ (Returns /\ Top.fn \in {"get_best_move", "iterative_deepening_search"})
             => board' = Board(fen)
        /\ ~Idle => evaluate_position(board, pawn_tt).board = board ]_vars

\* alpha_beta_search is about to return after a beta cutoff, below the root,
\* with the move stack as it was at entry
C3_Witness ==
    /\ ~Idle /\ Top.fn = "alpha_beta_search" /\ Top.pc = "store"
    /\ Top.ply > 0
    /\ Top.best_value >= Top.beta
    /\ board.move_stack = Top.entry_stack

\* C4: once timeout is set during a get_best_move call, no transposition
\* table entry is written and no killer or history entry is modified for the
\* rest of that call.
C4_NoWritesAfterTimeout ==
    [][ (~Idle /\ timeout) => UNCHANGED << tt, killer_moves, history_table >> ]_vars

\* C5: the move iterative_deepening_search returns is the move returned by
\* the root search of the deepest iteration that came back with the timeout
\* flag clear; and an iteration whose search comes back with the flag set
\* changes none of best_move, best_value and the previous iteration's score.
C5_DeepestCompletedIteration ==
    [][ /\ (IdsTop /\ Returns) => ret'.move = Top.completed.move
        /\ (IdsTop /\ timeout /\ Len(callStack') = Len(callStack))
             => /\ Top'.best_move = Top.best_move
                /\ Top'.best_value = Top.best_value
                /\ Top'.has_prev_eval = Top.has_prev_eval
                /\ Top'.prev_eval = Top.prev_eval ]_vars

\* C6: at the start of every get_best_move call the killer table is empty
\* and the history table is all zero.
C6_KillersAndHistoryFresh ==
    (~Idle /\ Top.fn = "get_best_move" /\ Top.pc = "start")
        => (killer_moves = NoKillers /\ history_table = NoHistory)

\* C7: the timeout flag is sticky within one get_best_move call, and it is
\* false after every return of get_best_move, a return caused by the deadline
\* included.
C7_ClearedOnReturn ==
    [][ /\ (~Idle /\ ~Idle' /\ timeout) => timeout'
        /\ Idle' => ~timeout' ]_vars

\* the greatest N of "mate in N" the roots are examined for
MaxMate == 2

\* the side to move in b can force checkmate within n of its own moves;
\* Mated(c, n): the side that has just moved into c has done so
RECURSIVE ForcedMate(_, _), Mated(_, _)
ForcedMate(b, n) ==
    n >= 1 /\ \E m \in LegalMoveSet(b.pieces, b.turn) : Mated(push(b, m), n)
Mated(c, n) ==
    \/ is_checkmate(c)
    \/ /\ n > 1
       /\ LegalMoveSet(c.pieces, c.turn) # {}
       /\ \A r \in LegalMoveSet(c.pieces, c.turn) : ForcedMate(push(c, r), n - 1)

\* C8: when get_best_move has returned without the deadline expiring on a
\* position with a forced mate in N, and the target depth is at least 2N - 1,
\* the move returned begins a mate within N moves and the score's absolute
\* value is at least MATE - 2N, whatever earlier calls left in the tables.
C8_MatePlayed ==
    \A n \in 1..MaxMate :
        (Returned /\ ~timeout /\ target_depth >= 2 * n - 1 /\ ForcedMate(Board(fen), n))
            => /\ \E m \in RootMoves : Names(result, m) /\ Mated(push(Board(fen), m), n)
               /\ Abs(result.eval_score) >= MATE - 2 * n

\* C9: for every transposition table entry with flag exact and stored depth
\* D, and every depth d from 1 to D, alpha_beta_search on the entry's position
\* to depth d with the full window and without the transposition table
\* returns the entry's stored value.
C9_ExactEntriesReproduce ==
    \A k \in DOMAIN tt :
        tt[k].flag = "exact"
            => \A d \in 1..tt[k].depth : SearchWithoutTT(k, d).value = tt[k].value

\* C10: every entry in the transposition table, at any point during or
\* between get_best_move calls, is well-formed: its depth is at least 1, its
\* flag is exact, lower or upper, its value is finite, and its move is none or
\* a legal move of the position that is its key.
C10_TTWellFormed ==
    \A k \in DOMAIN tt :
        /\ tt[k].depth >= 1
        /\ tt[k].flag \in {"exact", "lower", "upper"}
        /\ -Inf < tt[k].value /\ tt[k].value < Inf
        /\ tt[k].move = NoMove \/ tt[k].move \in LegalMoveSet(k.pieces, k.turn)

\* C11: evaluate_pawn_structure is a pure memoization: on every position the
\* engine holds, and whatever the pawn cache has kept from the positions
\* evaluated before, it returns the score computed directly from the
\* position's pawns (passed +50, doubled -20 per extra pawn, isolated -15).
C11_PawnCacheTransparent ==
    ~Idle => evaluate_pawn_structure(board.pieces, pawn_tt).score
                = pawn_structure_score(board.pieces)

\* alpha_beta_search returns the table's entry for its position in this step
ReturnsEntry ==
    /\ AbTop /\ Top.pc = "enter"
    /\ nodes_searched' = nodes_searched + 1
    /\ AbEntry(Top, board).kind = "tt"

\* C13: a mate score stored at ply p and probed at another ply q comes back
\* as the mate score counted from the root through q: the entry's distance to
\* mate with q in the place of p, not the value computed at ply p.
C13_MateScoresPlyAdjusted ==
    [][ (/\ ReturnsEntry
         /\ Abs(tt[Top.key].value) > MATE_BOUND
         /\ tt[Top.key].ply # Top.ply)
        => ret'.value = Sgn(tt[Top.key].value)
                          * (Abs(tt[Top.key].value) - (Top.ply - tt[Top.key].ply)) ]_vars

\* C14: the transposition table never holds more entries than its cap and
\* one: a store that takes the count above the cap is followed by the
\* eviction before another entry is stored, during a search as well as
\* between searches.  The cap is that of SpecSmallTable.
C14_TableBounded == Cardinality(DOMAIN tt) <= SmallTable + 1

\* the calls of alpha_beta_search on the stack that raised their depth
Raisers ==
    { i \in DOMAIN callStack :
        callStack[i].fn = "alpha_beta_search" /\ callStack[i].raised }

\* C15: along every chain of nested alpha_beta_search calls (children of
\* moves, of null moves, reduced searches and their re-searches) the check
\* extension raises the depth at most once.
C15_OneExtensionPerBranch == Cardinality(Raisers) <= 1

\* a call below one that raised its depth stands in check at a depth the
\* extension applies to, and has not raised its own
C15_Witness ==
    /\ AbTop /\ Top.pc = "loop"
    /\ is_check(board) /\ Top.depth <= 2 /\ ~Top.raised
    /\ Raisers # {}

\* the depth alpha_beta_search searches the position it is entering to: its
\* argument, one more when the check extension applies
SearchedDepth ==
    IF ExtendsCheck(Top, is_check(board)) THEN Top.depth + 1 ELSE Top.depth

\* alpha_beta_search, entering, takes something from the table's entry for
\* its position: it returns the entry's value, or goes on with alpha raised
\* or beta lowered to it
UsesEntry ==
    /\ AbTop /\ Top.pc = "enter"
    /\ \/ AbEntry(Top, board).kind = "tt"
       \/ AbEntry(Top, board).frame.alpha # Top.alpha
       \/ AbEntry(Top, board).frame.beta # Top.beta

\* C16: alpha_beta_search returns a table entry's value, or narrows alpha or
\* beta by it, only when the entry's stored depth is at least the depth
\* searched at the node, the check extension of that node counted in.
C16_EntriesDeepEnough ==
    [][ (UsesEntry /\ nodes_searched' = nodes_searched + 1)
        => (Top.key \in DOMAIN tt /\ tt[Top.key].depth >= SearchedDepth) ]_vars

\* a node in check whose depth is raised takes the entry of its position,
\* which is as deep as the raised depth
C16_Witness ==
    /\ UsesEntry
    /\ AbReadsClock => ~deadline_passed
    /\ ExtendsCheck(Top, is_check(board))
    /\ tt[Top.key].depth >= Top.depth + 1

\* the frame the running call has after the step that calls a search: the
\* caller's, below the new frame
Caller == callStack'[Len(callStack)]
\* the new frame of the search called in this step
Called == callStack'[Len(callStack')]

\* C17: an iteration at depth >= 4 with a previous score prev first searches
\* the root in (prev - 50, prev + 50); a score strictly inside the window is
\* accepted; a failure widens both bounds by 50 and searches the root again
\* in the widened window, up to 5 such retries; after the fifth retry has
\* failed the root is searched with the full window.
C17_AspirationRetries ==
    [][ /\ (IdsTop /\ Top.pc = "loop" /\ ~IdsLoopOver(Top)
              /\ Top.has_prev_eval /\ Top.depth >= 4)
            => /\ Len(callStack') = Len(callStack) + 1
               /\ Called.fn = "alpha_beta_search" /\ Called.ply = 0
               /\ Called.alpha = Top.prev_eval - aspiration_window
               /\ Called.beta = Top.prev_eval + aspiration_window
        /\ (IdsTop /\ Top.pc = "aspiration" /\ InsideWindow(Top, ret.value))
            => /\ Len(callStack') = Len(callStack)
               /\ Top'.pc = "loop"
        /\ (IdsTop /\ Top.pc = "aspiration" /\ ~InsideWindow(Top, ret.value))
            => /\ Len(callStack') = Len(callStack) + 1
               /\ Called.fn = "alpha_beta_search" /\ Called.ply = 0
               /\ Called.depth = Top.depth
               /\ IF Top.widen < aspiration_max_widening
                  THEN /\ Called.alpha = AddInf(Top.alpha, -aspiration_window)
                       /\ Called.beta = AddInf(Top.beta, aspiration_window)
                       /\ Caller.widen = Top.widen + 1
                  ELSE Called.alpha = -Inf /\ Called.beta = Inf ]_vars

\* the material on the board, the kings left out
NonKingMaterial(pieces) ==
    Material(pieces, { s \in DOMAIN pieces : pieces[s].piece_type # KING })

\* C18: in a position whose material is below the null-move threshold, kings
\* and pawns only for one, alpha_beta_search plays no null move, whatever
\* the depth.
C18_NoNullMoveInEndgames ==
    [][ (AbTop /\ Top.pc = "enter"
            /\ NonKingMaterial(board.pieces) < null_move_material_threshold)
        => board' # push(board, NullMove) ]_vars

\* the entry of alpha_beta_search reaches the reverse futility test and takes
\* the static evaluation
EntryEvaluates ==
    /\ AbTop /\ Top.pc = "enter"
    /\ AbEntry(Top, board).kind \in {"rfp", "null", "moves"}
    /\ TakesStaticEval(AbEntry(Top, board).frame, is_check(board),
                       LegalMoveSet(board.pieces, board.turn) = {})

\* the boards the fallback of get_best_move evaluates: the first moves of
\* order_moves, each pushed
FallbackBoards ==
    LET ordered_moves == order_moves(board, 0, FALSE, pv_move, killer_moves, history_table)
    IN  { push(board, ordered_moves[i]) :
            i \in 1..Min(FALLBACK_MOVES, Len(ordered_moves)) }

FallsBack == ~Idle /\ Top.fn = "get_best_move" /\ Top.pc = "search" /\ ~IsMove(ret.move)

\* the boards evaluate_position is invoked on by the step the program takes
\* from the state: stand pat, reverse futility, futility pruning, the fallback
EvaluatedBoards ==
    (IF QsTop /\ Top.pc = "enter" THEN {board} ELSE {})
    \cup (IF EntryEvaluates THEN {board} ELSE {})
    \cup (IF AbHasMove /\ FutilityApplies(Top, AbMove, board) THEN {board} ELSE {})
    \cup (IF FallsBack THEN FallbackBoards ELSE {})

\* C19: evaluate_position is never invoked on a position whose side to move
\* is in check, neither from reverse futility, futility pruning and
\* quiescence nor from the one-ply fallback of get_best_move.
C19_NoEvaluationInCheck == \A b \in EvaluatedBoards : ~is_check(b)

\* the moves the fallback of get_best_move evaluates: "ordered_moves[:5]"
FallbackMoves ==
    LET ordered_moves == order_moves(board, 0, FALSE, pv_move, killer_moves, history_table)
    IN  { ordered_moves[i] : i \in 1..Min(FALLBACK_MOVES, Len(ordered_moves)) }

\* the one-ply evaluation of a move for the side that plays it: the evaluator
\* scores the position after the move for the side to move there, the opponent
ScoreForMover(m) == -evaluate_position(push(board, m), pawn_tt).value

BestOnePly == { m \in FallbackMoves : \A n \in FallbackMoves : ScoreForMover(m) >= ScoreForMover(n) }

\* C20: when no iteration produced a move, get_best_move returns, among the
\* first five moves of order_moves, a move whose resulting position has the
\* best one-ply evaluation for the side to move at the root; only when there
\* is no such move does it return an arbitrary legal move.
C20_FallbackPicksBest ==
    [][ (FallsBack /\ callStack' = << >>)
        => \E m \in IF FallbackMoves # {} THEN BestOnePly
                    ELSE LegalMoveSet(board.pieces, board.turn) :
              Names(result', m) ]_vars

\* the quiescence calls in progress, innermost last
QsCalls == { i \in DOMAIN callStack : callStack[i].fn = "quiescence" }

\* the pieces on the board when call i was entered: the board's move stack
\* keeps the position every move still on it was played from
PiecesAtEntry(i) ==
    IF Len(callStack[i].entry_stack) < Len(board.move_stack)
    THEN board.move_stack[Len(callStack[i].entry_stack) + 1].pieces
    ELSE board.pieces

PieceCount(pieces) == Cardinality(DOMAIN pieces)

\* a quiescence call makes a recursive call
QsRecurses == QsTop /\ Len(callStack') = Len(callStack) + 1

\* the variant of quiescence: a recursive call is entered with one piece
\* fewer, the nested calls hold strictly fewer pieces the deeper they are, and
\* a call has no more calls in progress from itself down than it had pieces
QsVariant ==
    /\ [][ QsRecurses => /\ Called.fn = "quiescence"
                         /\ PieceCount(board'.pieces) < PieceCount(board.pieces) ]_vars
    /\ [](\A i, j \in QsCalls :
            i < j => PieceCount(PiecesAtEntry(j)) < PieceCount(PiecesAtEntry(i)))
    /\ [](\A i \in QsCalls :
            Cardinality({ j \in QsCalls : j >= i }) <= PieceCount(PiecesAtEntry(i)))

\* the steps a quiescence call entered with n pieces can take at most, its
\* recursive calls included: a capture is made by one of the pieces on one of
\* the others, to one of at most four promotions, which makes n * n captures
\* at most, and each costs the step that makes it, the call it makes and the
\* step that takes its score
RECURSIVE QsSteps(_)
QsSteps(n) == IF n = 0 THEN 2 ELSE 2 + n * n * (2 + QsSteps(n - 1))

\* the steps call i can still take, those of a recursive call in progress
\* left out: the captures not yet tried, and the step that returns
QsStepsLeft(i) ==
    LET f == callStack[i]
        n == PieceCount(PiecesAtEntry(i))
    IN  CASE f.pc = "enter" -> QsSteps(n)
          [] f.pc = "loop" ->
                1 + (Len(f.capture_moves) - f.index) * (2 + QsSteps(n - 1))
          [] f.pc = "searched" ->
                2 + (Len(f.capture_moves) - f.index) * (2 + QsSteps(n - 1))

RECURSIVE QsRankFrom(_)
QsRankFrom(i) ==
    IF i > Len(callStack) THEN 0
    ELSE (IF i \in QsCalls THEN QsStepsLeft(i) ELSE 0) + QsRankFrom(i + 1)

\* the steps the quiescence calls in progress can still take
QsRank == QsRankFrom(1)
\* C21: every quiescence call terminates: a recursive call is made after a
\* capture, so the pieces strictly decrease along the nested calls and the
\* depth of the recursion is bounded by the piece count.  quiescence calls
\* nothing but itself, so its calls are the top of the call stack, and once
\* the top is no quiescence call every one of them has returned; every step
\* of quiescence brings that nearer by one at least.
C21_QuiescenceTerminates == QsVariant /\ [][QsTop => QsRank' < QsRank]_vars /\ [](QsRank >= 0)

C21_Witness == Cardinality(QsCalls) >= 3 /\ Top.pc = "enter"

\* alpha_beta_search leaves its move loop without a move searched: every
\* searched move has a score above the -inf best_value starts from
ReturnsUnsearched ==
    /\ AbTop /\ Top.pc \in {"loop", "store"}
    /\ Returns
    /\ Top.best_value = -Inf

\* C22: when alpha_beta_search has searched no move at a node, every move
\* skipped by futility pruning or the loop left on the timeout before the
\* first move, the score it returns is not above the alpha the node had when
\* the move loop started.
C22_NoMoveFailsLow == [][ReturnsUnsearched => ret'.value <= Top.alpha_orig]_vars
=============================================================================
